---- MODULE Spec2Model ----
(***************************************************************************)
(* Model of the Byteflow MCP server (src/server.py): the input model       *)
(* ByteflowGetHealthInput, the HTTP adapter _make_api_request, the error   *)
(* classifier _handle_api_error and the tool byteflow_get_health.          *)
(*                                                                         *)
(* Python strings are TLA+ strings; Python values (parsed JSON) are        *)
(* records [t, s, items]: t is the Python type, s the text of a scalar,    *)
(* items the <<key, value>> entries of a dict or list in insertion order.  *)
(***************************************************************************)
EXTENDS Integers, Sequences, FiniteSets, TLC

\* ---------------------------------------------------------------- bounds
\* Number of tool invocations a behaviour goes through.
MaxCalls == 2
\* Long texts are generated with rendered lengths CHARACTER_LIMIT - Slack ..
\* CHARACTER_LIMIT + Slack.
Slack == 2

\* ------------------------------------------------------------- constants
CHARACTER_LIMIT == 25000

\* ------------------------------------------------- Python string helpers
\* s repeated n times ("x" * n).
RECURSIVE Rep(_, _)
Rep(s, n) ==
    IF n <= 0 THEN ""
    ELSE IF n % 2 = 1 THEN s \o Rep(s, n - 1)
    ELSE LET h == Rep(s, n \div 2) IN h \o h

\* s[:n] for n >= 0.
Prefix(s, n) == IF n >= Len(s) THEN s ELSE SubSeq(s, 1, n)

\* s.endswith(t)
EndsWith(s, t) ==
    Len(s) >= Len(t) /\ SubSeq(s, Len(s) - Len(t) + 1, Len(s)) = t

\* s.startswith(t)
StartsWith(s, t) == Len(s) >= Len(t) /\ SubSeq(s, 1, Len(t)) = t

\* c in s, for a one-character c.
Contains(s, c) == \E i \in 1..Len(s) : SubSeq(s, i, i) = c

\* The body of repr(str) with quote character q: backslashes and q escaped.
\* (The texts of the model are printable ASCII, which repr leaves alone.)
RECURSIVE Escape(_, _)
Escape(s, q) ==
    IF ~Contains(s, "\\") /\ ~Contains(s, q) THEN s
    ELSE IF Len(s) = 1 THEN "\\" \o s
    ELSE LET m == Len(s) \div 2
         IN  Escape(SubSeq(s, 1, m), q) \o Escape(SubSeq(s, m + 1, Len(s)), q)

\* repr(s) of a Python str: single quotes unless s holds ' and no ".
StrRepr(s) ==
    IF Contains(s, "'") /\ ~Contains(s, "\"")
    THEN "\"" \o Escape(s, "\"") \o "\""
    ELSE "'" \o Escape(s, "'") \o "'"

\* str(n) of a Python int n >= 0.
RECURSIVE IntStr(_)
IntStr(n) ==
    LET d == SubSeq("0123456789", (n % 10) + 1, (n % 10) + 1)
    IN  IF n < 10 THEN d ELSE IntStr(n \div 10) \o d

\* ------------------------------------------------------- Python values
NoItems == <<>>
PyStr(s) == [t |-> "str", s |-> s, items |-> NoItems]
PyInt(n) == [t |-> "int", s |-> IntStr(n), items |-> NoItems]
PyNone == [t |-> "NoneType", s |-> "None", items |-> NoItems]
PyDict(items) == [t |-> "dict", s |-> "", items |-> items]
PyList(items) == [t |-> "list", s |-> "", items |-> items]
\* An entry of a dict (k the key) or of a list (k unused).
Item(k, v) == [k |-> k, v |-> v]

\* repr(v) of a scalar value.
ScalarRepr(v) == IF v.t = "str" THEN StrRepr(v.s) ELSE v.s

\* ", ".join of the entries of a dict or list, each rendered by repr.
RECURSIVE JoinItems(_, _)
JoinItems(items, isDict) ==
    IF Len(items) = 0 THEN ""
    ELSE LET e == Head(items)
             one == IF isDict THEN StrRepr(e.k) \o ": " \o ScalarRepr(e.v)
                    ELSE ScalarRepr(e.v)
         IN  IF Len(items) = 1 THEN one
             ELSE one \o ", " \o JoinItems(Tail(items), isDict)

\* str(v), as an f-string "{v}" renders it.
ValueStr(v) ==
    IF v.t = "dict" THEN "{" \o JoinItems(v.items, TRUE) \o "}"
    ELSE IF v.t = "list" THEN "[" \o JoinItems(v.items, FALSE) \o "]"
    ELSE v.s

\* --------------------------------------------------------- input model
\* class ResponseFormat(str, Enum)
ResponseFormat == {"markdown", "json"}
MARKDOWN == "markdown"
JSON == "json"

\* The fields ByteflowGetHealthInput declares.
InputFields == {"response_format"}

\* Raw tool arguments: the names of the fields sent and the value sent for
\* response_format (ignored when the field is not sent).
RawInput(fields, format) == [fields |-> fields, response_format |-> format]

\* A variant of the input model without extra='forbid' and with a plain str
\* field in place of the enumeration.
ValidateLax(raw) ==
    [ok |-> TRUE,
     response_format |->
        IF "response_format" \in raw.fields THEN raw.response_format ELSE MARKDOWN]

\* Construction of ByteflowGetHealthInput from raw arguments: extra fields
\* are forbidden, response_format must be a member of ResponseFormat and
\* defaults to MARKDOWN.
Validate(raw) ==
    IF ~(raw.fields \subseteq InputFields)
    THEN [ok |-> FALSE, response_format |-> ""]
    ELSE IF "response_format" \notin raw.fields
    THEN [ok |-> TRUE, response_format |-> MARKDOWN]
    ELSE IF raw.response_format \in ResponseFormat
    THEN [ok |-> TRUE, response_format |-> raw.response_format]
    ELSE [ok |-> FALSE, response_format |-> ""]

\* ----------------------------------------------------------- exceptions
\* A response body: its text and the value the text parses to as JSON
\* (t = "invalid" when the text is not JSON).
Body(text, parsed) == [text |-> text, parsed |-> parsed]
NotJSON == [t |-> "invalid", s |-> "", items |-> NoItems]
NoBody == Body("", NotJSON)

\* An exception object: class, str(e), and for an HTTPStatusError the
\* response's status code and body.
Exc(cls, msg) == [cls |-> cls, msg |-> msg, code |-> 0, body |-> NoBody]
StatusExc(code, body) ==
    [cls |-> "HTTPStatusError", msg |-> "status error " \o IntStr(code),
     code |-> code, body |-> body]
NoExc == Exc("", "")

\* The direct base class of each exception class the model raises (httpx's
\* hierarchy and the builtins); "Exception" is the root.
Parent(cls) ==
    CASE cls = "HTTPStatusError" -> "HTTPError"
      [] cls = "RequestError" -> "HTTPError"
      [] cls = "TransportError" -> "RequestError"
      [] cls = "TooManyRedirects" -> "RequestError"
      [] cls = "DecodingError" -> "RequestError"
      [] cls = "TimeoutException" -> "TransportError"
      [] cls = "NetworkError" -> "TransportError"
      [] cls = "ConnectTimeout" -> "TimeoutException"
      [] cls = "ReadTimeout" -> "TimeoutException"
      [] cls = "ConnectError" -> "NetworkError"
      [] cls = "ReadError" -> "NetworkError"
      [] cls = "JSONDecodeError" -> "ValueError"
      [] OTHER -> "Exception"

\* isinstance(e, target) for an exception of class cls.
RECURSIVE IsInstance(_, _)
IsInstance(cls, target) ==
    IF cls = target THEN TRUE
    ELSE IF cls = "Exception" THEN FALSE
    ELSE IsInstance(Parent(cls), target)

\* ------------------------------------------------------- HTTP adapter
\* The result of a call: a returned value or a raised exception.
Return(v) == [ok |-> TRUE, value |-> v, exc |-> NoExc]
Raise(e) == [ok |-> FALSE, value |-> PyNone, exc |-> e]

\* What the remote end does with the one request: the transport raises, or
\* a response with a status code and a body arrives.
TransportFailure(e) == [kind |-> "exception", code |-> 0, body |-> NoBody, exc |-> e]
Response(code, body) == [kind |-> "response", code |-> code, body |-> body, exc |-> NoExc]

\* response.json(): the parsed body; a body that is not JSON (the empty body
\* included) raises json.JSONDecodeError.
ResponseJson(body) ==
    IF body.parsed.t = "invalid"
    THEN Raise(Exc("JSONDecodeError", "Expecting value: line 1 column 1 (char 0)"))
    ELSE Return(body.parsed)

\* response.raise_for_status(): every status outside 2xx raises.
IsSuccess(code) == code >= 200 /\ code <= 299

\* _make_api_request, from the arrival of the remote outcome o on.
_make_api_request(o) ==
    IF o.kind = "exception" THEN Raise(o.exc)
    ELSE IF ~IsSuccess(o.code) THEN Raise(StatusExc(o.code, o.body))
    ELSE ResponseJson(o.body)

\* ------------------------------------------------------ error classifier
\* The result of _handle_api_error: the message returned, or the exception
\* it raised; branch names the isinstance branch taken and body_reads counts
\* the calls of e.response.json() and reads of e.response.text.
Handled(branch, msg, reads) ==
    [ok |-> TRUE, msg |-> msg, exc |-> NoExc, branch |-> branch, body_reads |-> reads]
HandlerRaised(branch, e, reads) ==
    [ok |-> FALSE, msg |-> "", exc |-> e, branch |-> branch, body_reads |-> reads]
NotHandled ==
    [ok |-> FALSE, msg |-> "", exc |-> NoExc, branch |-> "none", body_reads |-> 0]

\* The status codes answered with a fixed sentence.
FixedCodes == {404, 403, 401, 429}

\* A variant with the sentences of 403 and 401 exchanged.
FixedSentenceSwapped(code) ==
    CASE code = 404 -> "Error: Resource not found."
      [] code = 403 -> "Error: Authentication failed."
      [] code = 401 -> "Error: Permission denied."
      [] code = 429 -> "Error: Rate limit exceeded."

\* The if/elif chain over e.response.status_code.
FixedSentence(code) ==
    CASE code = 404 -> "Error: Resource not found."
      [] code = 403 -> "Error: Permission denied."
      [] code = 401 -> "Error: Authentication failed."
      [] code = 429 -> "Error: Rate limit exceeded."

\* The message of a status error that has no fixed sentence.
StatusMessage(code, detail) ==
    "Error: API request failed with status " \o IntStr(code) \o ": " \o detail

\* The isinstance(e, httpx.HTTPStatusError) branch. The try calls
\* e.response.json(); its except clause names httpx.ReadError, so only an
\* exception of that class falls back to e.response.text, and any other
\* exception of json() leaves _handle_api_error.
StatusBranch(e) ==
    IF e.code \in FixedCodes THEN Handled("status", FixedSentence(e.code), 0)
    ELSE LET r == ResponseJson(e.body)
         IN  IF r.ok
             THEN Handled("status", StatusMessage(e.code, ValueStr(r.value)), 1)
             ELSE IF IsInstance(r.exc.cls, "ReadError")
             THEN Handled("status", StatusMessage(e.code, e.body.text), 2)
             ELSE HandlerRaised("status", r.exc, 1)

\* The branches after the status branch.
TimeoutMessage == "Error: Request timed out."
NetworkMessage(e) == "Error: Network request failed: " \o e.msg
OtherMessage(e) == "Error: " \o e.cls \o ": " \o e.msg

\* A variant that tests httpx.RequestError before httpx.TimeoutException.
_handle_api_error_reordered(e) ==
    IF IsInstance(e.cls, "HTTPStatusError") THEN StatusBranch(e)
    ELSE IF IsInstance(e.cls, "RequestError")
    THEN Handled("request", NetworkMessage(e), 0)
    ELSE IF IsInstance(e.cls, "TimeoutException")
    THEN Handled("timeout", TimeoutMessage, 0)
    ELSE Handled("other", OtherMessage(e), 0)

\* def _handle_api_error(e: Exception) -> str
_handle_api_error(e) ==
    IF IsInstance(e.cls, "HTTPStatusError") THEN StatusBranch(e)
    ELSE IF IsInstance(e.cls, "TimeoutException")
    THEN Handled("timeout", TimeoutMessage, 0)
    ELSE IF IsInstance(e.cls, "RequestError")
    THEN Handled("request", NetworkMessage(e), 0)
    ELSE Handled("other", OtherMessage(e), 0)

\* ------------------------------------------------------------- the tool
\* d.get(key, default) over the entries of a dict.
RECURSIVE DictGet(_, _, _)
DictGet(items, key, default) ==
    IF Len(items) = 0 THEN default
    ELSE IF Head(items).k = key THEN Head(items).v
    ELSE DictGet(Tail(items), key, default)

NoAttributeGet(t) == Exc("AttributeError", "'" \o t \o "' object has no attribute 'get'")

\* A variant that calls get("status") without a default.
ExtractStatusNoDefault(response_data) ==
    IF response_data.t = "dict"
    THEN Return(DictGet(response_data.items, "status", PyNone))
    ELSE Raise(NoAttributeGet(response_data.t))

\* A variant that answers the default for a payload that is no dict.
ExtractStatusLenient(response_data) ==
    IF response_data.t = "dict"
    THEN Return(DictGet(response_data.items, "status", PyStr("UNKNOWN")))
    ELSE Return(PyStr("UNKNOWN"))

\* status = response_data.get("status", "UNKNOWN"); only a dict has get.
ExtractStatus(response_data) ==
    IF response_data.t = "dict"
    THEN Return(DictGet(response_data.items, "status", PyStr("UNKNOWN")))
    ELSE Raise(NoAttributeGet(response_data.t))

\* A variant that truncates at CHARACTER_LIMIT characters and more.
TruncateFromLimit(output) ==
    IF Len(output) >= CHARACTER_LIMIT
    THEN Prefix(output, CHARACTER_LIMIT - 3) \o "..."
    ELSE output

\* if len(output) > CHARACTER_LIMIT: output = output[:CHARACTER_LIMIT - 3] + "..."
Truncate(output) ==
    IF Len(output) > CHARACTER_LIMIT
    THEN Prefix(output, CHARACTER_LIMIT - 3) \o "..."
    ELSE output

\* The four renderings, before any truncation.
StatusPrefix == "Byteflow API Status: "
SuccessLine(st) == StatusPrefix \o ValueStr(st)
SuccessJson(st) == ValueStr(PyDict(<<Item("status", st)>>))
ErrorLine(msg) == StatusPrefix \o "Error - " \o msg
ErrorJson(msg) == ValueStr(PyDict(<<Item("error", PyStr(msg))>>))

\* The string a branch returns for its rendering: the JSON branch returns
\* it as it is, the other branch passes it through the length check.
Returned(format, rendered) ==
    IF format = JSON THEN rendered ELSE Truncate(rendered)

\* ---------------------------------------------------------------- inputs
\* Raw tool arguments: response_format omitted, each member of the
\* enumeration, a value outside it, and an argument the model does not
\* declare.
RawInputs ==
    { RawInput({}, ""),
      RawInput({"response_format"}, "markdown"),
      RawInput({"response_format"}, "json"),
      RawInput({"response_format"}, "xml"),
      RawInput({"response_format", "verbose"}, "markdown"),
      RawInput({"verbose"}, "") }

\* Lengths around the limit: texts that make a line with a fixed part of
\* `fixed` characters CHARACTER_LIMIT - Slack .. CHARACTER_LIMIT + Slack long,
\* and texts that are themselves CHARACTER_LIMIT .. CHARACTER_LIMIT + Slack long.
LongLengths(fixed) ==
    { CHARACTER_LIMIT - fixed + d : d \in (0 - Slack)..Slack }
        \cup { CHARACTER_LIMIT + d : d \in 0..Slack }

StatusBody(text, st) == Body(text, PyDict(<<Item("status", st)>>))

ShortBodies ==
    { StatusBody("{\"status\": \"UP\"}", PyStr("UP")),
      StatusBody("{\"status\": \"DOWN\"}", PyStr("DOWN")),
      StatusBody("{\"status\": \"it's\"}", PyStr("it's")),
      StatusBody("{\"status\": null}", PyNone),
      StatusBody("{\"status\": 1}", PyInt(1)),
      Body("{}", PyDict(<<>>)),
      Body("{\"state\": \"UP\"}", PyDict(<<Item("state", PyStr("UP"))>>)),
      Body("{\"error\": \"boom\", \"code\": 7}",
           PyDict(<<Item("error", PyStr("boom")), Item("code", PyInt(7))>>)),
      Body("[\"UP\"]", PyList(<<Item("", PyStr("UP"))>>)),
      Body("\"UP\"", PyStr("UP")),
      Body("Internal Server Error", NotJSON),
      NoBody }

LongBodies ==
    { StatusBody("{\"status\": \"" \o Rep("x", n) \o "\"}", PyStr(Rep("x", n))) :
        n \in LongLengths(Len(SuccessLine(PyStr("")))) }

StatusCodes == {200, 204, 301, 400, 401, 403, 404, 429, 500, 503}

TransportErrors ==
    { Exc("ConnectTimeout", "timed out"),
      Exc("ReadTimeout", "The read operation timed out"),
      Exc("ConnectError", "All connection attempts failed"),
      Exc("ReadError", "Connection reset by peer"),
      Exc("TooManyRedirects", "Exceeded maximum allowed redirects."),
      Exc("DecodingError", "Error -3 while decompressing data"),
      Exc("RuntimeError", "Event loop is closed") }
        \cup { Exc("ConnectError", Rep("x", n)) :
                 n \in LongLengths(Len(ErrorLine(NetworkMessage(Exc("", ""))))) }

\* Everything the remote end can do with the request.
Outcomes ==
    { Response(c, b) : c \in StatusCodes, b \in ShortBodies }
        \cup { Response(200, b) : b \in LongBodies }
        \cup { Response(500, b) : b \in LongBodies }
        \cup { TransportFailure(e) : e \in TransportErrors }

\* ----------------------------------------------------------------- state
VARIABLES
    pc,        \* "idle", "awaiting", "returned", "raised" or "rejected"
    calls,     \* invocations started so far
    raw,       \* the raw arguments of the invocation
    params,    \* params.response_format of the validated input
    requests,  \* outbound HTTP requests issued by the invocation
    outcome,   \* what the remote end did with the request
    fetch,     \* result of _make_api_request
    status,    \* the local status
    exc,       \* the exception caught by `except Exception as e`
    handled,   \* result of _handle_api_error(e)
    output,    \* the rendering before the length check
    result,    \* the string returned to the caller
    template   \* "success", "error" or "none": the return statement reached

vars ==
    <<pc, calls, raw, params, requests, outcome, fetch, status, exc, handled,
      output, result, template>>

NoOutcome == [kind |-> "none", code |-> 0, body |-> NoBody, exc |-> NoExc]
NoResult == Raise(NoExc)

\* No state is kept between invocations: every invocation starts from this.
Fresh ==
    /\ raw = RawInput({}, "")
    /\ params = ""
    /\ requests = 0
    /\ outcome = NoOutcome
    /\ fetch = NoResult
    /\ status = PyNone
    /\ exc = NoExc
    /\ handled = NotHandled
    /\ output = ""
    /\ result = ""
    /\ template = "none"

Init == pc = "idle" /\ calls = 0 /\ Fresh

\* The framework builds ByteflowGetHealthInput from the raw arguments and
\* calls the tool with it only when that succeeds. The tool then runs up to
\* `await client.request("GET", "api/health", timeout=30.0)`, which sends the
\* request.
Invoke ==
    /\ pc = "idle"
    /\ calls < MaxCalls
    /\ \E r \in RawInputs :
         LET v == Validate(r)
         IN  /\ raw' = r
             /\ calls' = calls + 1
             /\ IF v.ok
                THEN /\ params' = v.response_format
                     /\ requests' = requests + 1
                     /\ pc' = "awaiting"
                ELSE /\ pc' = "rejected"
                     /\ UNCHANGED <<params, requests>>
    /\ UNCHANGED <<outcome, fetch, status, exc, handled, output, result, template>>

\* Lines 122-129: the success rendering.
SuccessPath(st) ==
    /\ status' = st
    /\ output' = IF params = JSON THEN SuccessJson(st) ELSE SuccessLine(st)
    /\ result' = Returned(params, output')
    /\ template' = "success"
    /\ pc' = "returned"
    /\ UNCHANGED <<exc, handled, requests>>

\* Lines 130-139 but for the request count: classify the exception, render
\* the error; an exception of _handle_api_error leaves the tool.
ErrorReturn(e) ==
    LET h == _handle_api_error(e)
    IN  /\ exc' = e
        /\ handled' = h
        /\ IF h.ok
           THEN /\ output' = IF params = JSON THEN ErrorJson(h.msg) ELSE ErrorLine(h.msg)
                /\ result' = Returned(params, output')
                /\ template' = "error"
                /\ pc' = "returned"
           ELSE /\ pc' = "raised"
                /\ UNCHANGED <<output, result, template>>
        /\ UNCHANGED status

\* A variant of the except block that calls _make_api_request once more.
ErrorPathRetry(e) == ErrorReturn(e) /\ requests' = requests + 1

\* Lines 130-139: the except block issues no request.
ErrorPath(e) == ErrorReturn(e) /\ UNCHANGED requests

\* The remote outcome arrives: the rest of _make_api_request and of the try
\* block, then one of the two paths.
Respond ==
    /\ pc = "awaiting"
    /\ \E o \in Outcomes :
         LET f == _make_api_request(o)
             x == IF f.ok THEN ExtractStatus(f.value) ELSE f
         IN  /\ outcome' = o
             /\ fetch' = f
             /\ IF x.ok THEN SuccessPath(x.value) ELSE ErrorPath(x.exc)
    /\ UNCHANGED <<calls, raw, params>>

\* The invocation is over; the next one starts from nothing.
Finish ==
    /\ pc \in {"returned", "raised", "rejected"}
    /\ pc' = "idle"
    /\ raw' = RawInput({}, "")
    /\ params' = ""
    /\ requests' = 0
    /\ outcome' = NoOutcome
    /\ fetch' = NoResult
    /\ status' = PyNone
    /\ exc' = NoExc
    /\ handled' = NotHandled
    /\ output' = ""
    /\ result' = ""
    /\ template' = "none"
    /\ UNCHANGED calls

Next == Invoke \/ Respond \/ Finish

Spec == Init /\ [][Next]_vars

\* ================================================================ claims
Over == pc \in {"returned", "raised"}
Failed == Over /\ exc # NoExc
StatusError == Failed /\ exc.cls = "HTTPStatusError"
ObjectPayload == fetch.ok /\ fetch.value.t = "dict"
HasStatusField == \E i \in 1..Len(fetch.value.items) : fetch.value.items[i].k = "status"
StatusField ==
    fetch.value.items[CHOOSE i \in 1..Len(fetch.value.items) :
                         fetch.value.items[i].k = "status"].v

\* C1: every invocation with a valid response_format ends by returning a
\* string, whatever the remote call does; no exception leaves the tool, not
\* even one raised inside _handle_api_error.
C1_NeverRaises == pc # "raised"

\* C2: in both formats and on both paths the returned string is at most
\* CHARACTER_LIMIT characters long, and when the rendering is longer the
\* returned string is exactly CHARACTER_LIMIT long and ends with "...".
C2_LengthCapped ==
    pc = "returned" =>
        /\ Len(result) <= CHARACTER_LIMIT
        /\ Len(output) > CHARACTER_LIMIT =>
              Len(result) = CHARACTER_LIMIT /\ EndsWith(result, "...")

\* C3: on success with a JSON object payload the status is the payload's
\* "status" field, or "UNKNOWN" when absent; the rendering is
\* "Byteflow API Status: {status}" in markdown (returned as it is when within
\* the limit) and str({'status': status}) in json.
C3_SuccessRendering ==
    (pc = "returned" /\ ObjectPayload) =>
        /\ status = IF HasStatusField THEN StatusField ELSE PyStr("UNKNOWN")
        /\ params = "markdown" =>
              /\ output = "Byteflow API Status: " \o status.s
              /\ Len(output) <= CHARACTER_LIMIT => result = output
              /\ (HasStatusField /\ StatusField = PyStr("UP")) =>
                    result = "Byteflow API Status: UP"
        /\ params = "json" =>
              /\ result = "{'status': " \o ScalarRepr(status) \o "}"
              /\ (HasStatusField /\ StatusField = PyStr("UP")) =>
                    result = "{'status': 'UP'}"

\* C3 witness: a payload without "status" rendered in json.
C3_Witness ==
    /\ pc = "returned" /\ ObjectPayload /\ ~HasStatusField /\ params = "json"
    /\ result = "{'status': 'UNKNOWN'}"

\* C4: an invocation that returns used exactly one template: the success
\* template exactly when the fetch returned an object and the status was
\* extracted, the error template after any exception of the fetch, of the
\* decoding of a 2xx body or of the extraction; none is used otherwise.
C4_ExactlyOneTemplate ==
    /\ pc # "returned" => template = "none"
    /\ pc = "returned" =>
          /\ template \in {"success", "error"}
          /\ template = "success" <=> ObjectPayload
          /\ template = "success" =>
                /\ exc = NoExc /\ handled = NotHandled
                /\ result = Returned(params, IF params = "json" THEN SuccessJson(status)
                                             ELSE SuccessLine(status))
          /\ template = "error" =>
                /\ exc # NoExc /\ handled.ok /\ status = PyNone
                /\ result = Returned(params, IF params = "json" THEN ErrorJson(handled.msg)
                                             ELSE ErrorLine(handled.msg))

\* C4 witness: a 2xx body that is JSON but no object: the extraction raised
\* and the error template was used.
C4_Witness ==
    /\ pc = "returned" /\ fetch.ok /\ fetch.value.t = "list"
    /\ template = "error" /\ exc.cls = "AttributeError"

\* C5: a status error with code 404, 403, 401 or 429 gives the fixed
\* sentence of its code, whatever the body, without reading the body; a 404
\* in markdown returns "Byteflow API Status: Error - Error: Resource not found.".
C5_FixedSentences ==
    (StatusError /\ exc.code \in {404, 403, 401, 429}) =>
        /\ pc = "returned"
        /\ handled.body_reads = 0
        /\ handled.msg = CASE exc.code = 404 -> "Error: Resource not found."
                           [] exc.code = 403 -> "Error: Permission denied."
                           [] exc.code = 401 -> "Error: Authentication failed."
                           [] exc.code = 429 -> "Error: Rate limit exceeded."
        /\ (exc.code = 404 /\ params = "markdown") =>
              result = "Byteflow API Status: Error - Error: Resource not found."

\* C5 witness: a 403 with a body that is not JSON.
C5_Witness ==
    /\ StatusError /\ exc.code = 403 /\ exc.body.parsed.t = "invalid"
    /\ exc.body.text # "" /\ pc = "returned"

\* C6: a status error with any other code gives "Error: API request failed
\* with status {code}: {body}", the body parsed when it is JSON and the raw
\* text when it is not; a message is returned in both cases.
C6_OtherStatusMessage ==
    (StatusError /\ exc.code \notin {404, 403, 401, 429}) =>
        /\ handled.ok
        /\ handled.msg =
              "Error: API request failed with status " \o IntStr(exc.code) \o ": "
                 \o (IF exc.body.parsed.t = "invalid" THEN exc.body.text
                     ELSE ValueStr(exc.body.parsed))

C8_RejectedBeforeNetwork ==
    LET bad == \/ ~(raw.fields \subseteq {"response_format"})
               \/ /\ "response_format" \in raw.fields
                  /\ raw.response_format \notin {"markdown", "json"}
    IN  /\ pc = "rejected" => requests = 0 /\ outcome = NoOutcome /\ result = ""
        /\ pc # "idle" =>
              /\ bad <=> pc = "rejected"
              /\ (raw.fields = {} /\ pc # "rejected") => params = "markdown"

\* C8 witness: response_format "xml" rejected.
C8_Witness ==
    pc = "rejected" /\ raw.fields = {"response_format"} /\ raw.response_format = "xml"

\* C9: an invocation issues at most one request; after a failure of any
\* kind the error path returns without a second one.
C9_SingleRequest ==
    /\ requests <= 1
    /\ pc \in {"awaiting", "returned", "raised"} => requests = 1

\* C9 witness: a failed fetch, handled, with the one request.
C9_Witness ==
    pc = "returned" /\ template = "error" /\ ~fetch.ok /\ requests = 1

\* C10: in markdown, on both paths, the returned string is the rendered line
\* when that is at most CHARACTER_LIMIT long (exactly CHARACTER_LIMIT
\* included), else its first CHARACTER_LIMIT - 3 characters and "..."; the
\* prefix "Byteflow API Status: " is kept.
C10_MarkdownTruncation ==
    (pc = "returned" /\ params = "markdown") =>
        /\ template = "success" => output = "Byteflow API Status: " \o status.s
        /\ template = "error" => output = "Byteflow API Status: Error - " \o handled.msg
        /\ Len(output) <= CHARACTER_LIMIT => result = output
        /\ Len(output) > CHARACTER_LIMIT =>
              result = SubSeq(output, 1, CHARACTER_LIMIT - 3) \o "..."
        /\ StartsWith(result, "Byteflow API Status: ")

\* C10 witness: an error line one character over the limit, cut.
C10_Witness ==
    /\ pc = "returned" /\ params = "markdown" /\ template = "error"
    /\ Len(output) = CHARACTER_LIMIT + 1 /\ Len(result) = CHARACTER_LIMIT
    /\ EndsWith(result, "x...")

====
